---- MODULE Spec2Model ----
(***************************************************************************)
(* Model of cleanlogservice (src/main.go): a service whose Start spawns    *)
(* one eager cleanDirectories goroutine and a run loop; the run loop       *)
(* builds a cron scheduler wrapped in SkipIfStillRunning, starts it, waits *)
(* for the exit channel and stops it.  Stop closes the exit channel.       *)
(* cleanDirectories walks the configured directories and removes every     *)
(* non-directory immediate child older than the threshold.                 *)
(***************************************************************************)
EXTENDS Integers, Sequences, FiniteSets, TLC

\* ---------------------------------------------------------------- bounds
MaxStarts == 2      \* calls of Start the host makes
MaxStops  == 2      \* calls of Stop the host makes
MaxTicks  == 2      \* cron ticks delivered to one scheduler
MaxClock  == 1      \* seconds the wall clock advances during a behaviour

\* ------------------------------------------------------------- constants
\* time.AddDate(0, 0, -Days) followed by Unix(): one day is 86400 seconds
HourSeconds == 3600
DaySeconds == 86400

\* the instant the process starts (an arbitrary epoch second, ten days in)
T0 == 10 * DaySeconds

\* ------------------------------------------------------------ filesystem
\* A fixed tree:  a/{f, sub/{n}}   b/{emp/, g}
\* a and b are the directories a configuration may name; a/sub is a
\* non-empty subdirectory, b/emp an empty one.
DirNodes  == {"a", "b", "a/sub", "b/emp"}
FileNodes == {"a/f", "a/sub/n", "b/g"}
Nodes     == DirNodes \cup FileNodes

\* os.ReadDir returns the entries sorted by file name
ChildrenOf(d) ==
    CASE d = "a"     -> <<"a/f", "a/sub">>
      [] d = "a/sub" -> <<"a/sub/n">>
      [] d = "b"     -> <<"b/emp", "b/g">>
      [] OTHER       -> <<>>

SeqToSet(s) == {s[i] : i \in DOMAIN s}

\* filepath.Join(dir, file.Name()) names a child of dir: the directory a
\* node is an immediate child of ("/" for a and b themselves)
ParentOf(x) ==
    CASE x \in {"a/f", "a/sub"} -> "a"
      [] x = "a/sub/n"          -> "a/sub"
      [] x \in {"b/emp", "b/g"} -> "b"
      [] OTHER                  -> "/"

IsDirNode(x) == x \in DirNodes

\* ------------------------------------------------------------- identities
RunIds  == 1..MaxStarts
ExecIds == {<<k, r>> : k \in {"eager", "cron"}, r \in RunIds}

VARIABLES
    config,        \* p.config: [Directories, Days, TimeValid]
    now,           \* the wall clock, Unix seconds
    zone,          \* time.Local: the UTC offsets before and after one
                   \* transition, [at, before, after] in seconds
    fs,            \* the set of nodes that exist
    mtime,         \* node -> modification time, Unix seconds
    faults,        \* the paths on which ReadDir, Info and Remove fail
    host,          \* the Start and Stop calls the service manager has left,
                   \* the ticks one scheduler fires while it is observed, and
                   \* the host's notes
    starts,        \* number of Start calls made
    stops,         \* number of Stop calls made
    exitClosed,    \* p.exit has been closed
    crashed,       \* the process died of an unrecovered panic
    run,           \* run loop r -> position
    schedRunning,  \* run loop r's cron scheduler is started and not stopped
    token,         \* items in the SkipIfStillRunning channel of scheduler r
    ticks,         \* ticks scheduler r has fired
    pending,       \* the job goroutines scheduler r has spawned that have not
                   \* yet made the wrapper's test; a host that notes it tells
                   \* those spawned while a job held the token (busy) from
                   \* the others (free)
    started,       \* executions scheduler r has started
    active,        \* executions of scheduler r in progress
    exec           \* execution -> state of one cleanDirectories call

vars == <<config, now, zone, fs, mtime, faults, host, starts, stops, exitClosed,
          crashed, run, schedRunning, token, ticks, pending, started,
          active, exec>>

hostVars  == <<host, starts, stops, exitClosed, crashed>>
schedVars == <<schedRunning, token, ticks, pending, started, active>>
envVars   == <<config, now, zone, mtime, faults>>

\* =====================================================================
\* cleanDirectories (src/main.go 179-216)
\* =====================================================================

\* a cleanDirectories call that does not exist (yet)
IdleExec ==
    [pc |-> "idle", threshold |-> 0, dirIdx |-> 0, files |-> <<>>,
     fileIdx |-> 0, successCount |-> 0, failureCount |-> 0,
     logLines |-> 0, outLines |-> 0, report |-> <<>>,
     \* what the call has done so far (history, read by the properties only)
     startedAt |-> 0, visited |-> {}, enumFailed |-> {}, toEval |-> {},
     evals |-> {}, evalN |-> 0, staleSeen |-> {}, staleN |-> 0,
     statFailed |-> {}, delFailed |-> {}, removed |-> {}]

\* a goroutine that is to run cleanDirectories and has not yet begun
SpawnedExec == [IdleExec EXCEPT !.pc = "spawned"]

\* the UTC offset time.Local has at instant t
OffsetAt(z, t) == IF t < z.at THEN z.before ELSE z.after

\* time.Date: the instant of a wall-clock reading (seconds, as if UTC) in
\* zone z.  The offset is looked up at the reading itself and, when the
\* instant it gives falls on the other side of the transition, looked up
\* again at that instant.
WallToUnix(z, wall) ==
    LET guess == OffsetAt(z, wall)
        utc   == wall - guess
        off   == IF guess = 0 THEN 0
                 ELSE IF (utc < z.at) = (wall < z.at) THEN guess
                 ELSE OffsetAt(z, utc)
    IN wall - off

\* time.Now().AddDate(0, 0, -p.config.Days).Unix(): the same wall-clock
\* reading `days` calendar days earlier in time.Local
Threshold(t, days, z) ==
    WallToUnix(z, t + OffsetAt(z, t) - days * DaySeconds)

\* faulty variants of the staleness test: `<=` for `<`, and the IsDir test
\* left out
IsCandidateInclusive(isDir, mt, thr) == (~isDir) /\ mt <= thr
IsCandidateAnyKind(isDir, mt, thr) == mt < thr

\* !file.IsDir() && info.ModTime().Unix() < threshold
IsCandidate(isDir, mt, thr) == (~isDir) /\ mt < thr

\* faulty variant: the listing still shows entries that have been removed
ReadDirEntriesStale(d, fsv) == ChildrenOf(d)

\* os.ReadDir(dir): the existing immediate children, sorted by name
ReadDirEntries(d, fsv) == SelectSeq(ChildrenOf(d), LAMBDA x : x \in fsv)

\* os.ReadDir(dir) returns an error: the directory is missing or unreadable
ReadDirOk(d, fsv, flt) == d \in fsv /\ d \notin flt.read

\* file.Info(): the lstat of an existing entry fails where the platform
\* denies it; for an entry removed since ReadDir the outcome depends on the
\* platform (lstat fails on Unix, the listing's cached data is returned on
\* Windows)
InfoOutcomes(p, fsv, flt) ==
    IF p \in fsv THEN {p \notin flt.stat} ELSE BOOLEAN

\* os.Remove(path) succeeds only on an existing file or empty directory
\* that the platform lets the process delete
RemoveOk(p, fsv, flt) ==
    /\ p \in fsv
    /\ p \notin flt.remove
    /\ IsDirNode(p) => \A c \in SeqToSet(ChildrenOf(p)) : c \notin fsv

\* faulty variant: `return` for `continue` when os.ReadDir fails
OnEnumFailureReturn(x) == [x EXCEPT !.dirIdx = Len(config.Directories)]

\* os.ReadDir failed: `continue`, nothing is counted and nothing is logged
OnEnumFailure(x) == x

\* file.Info() failed: fmt.Println, failureCount++, continue
OnStatFailure(x) ==
    [x EXCEPT !.failureCount = @ + 1, !.outLines = @ + 1]

\* faulty variant: the error of os.Remove is dropped
OnDeleteFailureIgnored(x) == x

\* os.Remove failed: p.logger.Println, failureCount++, continue
OnDeleteFailure(x) ==
    [x EXCEPT !.failureCount = @ + 1, !.logLines = @ + 1]

\* os.Remove succeeded: successCount++
OnDeleteSuccess(x) == [x EXCEPT !.successCount = @ + 1]

\* the two range loops: the next directory of p.config.Directories
NextDir(x) == [x EXCEPT !.pc = "dirs", !.dirIdx = @ + 1,
                        !.files = <<>>, !.fileIdx = 0]

\* the inner range loop: the next entry of files, or the next directory
NextEntry(x) ==
    IF x.fileIdx < Len(x.files)
    THEN [x EXCEPT !.fileIdx = @ + 1]
    ELSE NextDir(x)

\* faulty variant: the directories are walked last to first
DirAtReversed(cfg, i) == cfg.Directories[Len(cfg.Directories) + 1 - i]

\* for _, dir := range p.config.Directories: the i-th iteration's dir
DirAt(cfg, i) == cfg.Directories[i]

\* faulty variant: the threshold is computed again at every entry
ThresholdInUseRecomputed(x, t, days) == Threshold(t, days, zone)

\* the test of line 201 reads the local variable assigned at line 184
ThresholdInUse(x, t, days) == x.threshold

Alive == ~crashed

\* lines 179-185: the start marker, the two counters, the threshold
Begin(e) ==
    /\ Alive
    /\ exec[e].pc = "spawned"
    /\ exec' = [exec EXCEPT ![e] =
                  [@ EXCEPT !.pc = "dirs", !.dirIdx = 1,
                            !.successCount = 0, !.failureCount = 0,
                            !.threshold = Threshold(now, config.Days, zone),
                            !.startedAt = now]]
    /\ UNCHANGED <<envVars, fs, hostVars, run, schedVars>>

\* lines 186-190: one directory of the outer loop is enumerated
ReadDirStep(e) ==
    /\ Alive
    /\ exec[e].pc = "dirs"
    /\ exec[e].dirIdx <= Len(config.Directories)
    /\ LET x   == exec[e]
           i   == x.dirIdx
           dir == DirAt(config, i)
           v   == [x EXCEPT !.visited = @ \cup {i}]
       IN IF ReadDirOk(dir, fs, faults)
            THEN LET files == ReadDirEntries(dir, fs)
                     w == [v EXCEPT !.toEval = @ \cup
                                      {<<i, f>> : f \in SeqToSet(files)}]
                 IN exec' = [exec EXCEPT ![e] =
                       IF files = <<>>
                       THEN NextDir(w)
                       ELSE [w EXCEPT !.pc = "files", !.files = files,
                                      !.fileIdx = 1]]
            ELSE exec' = [exec EXCEPT ![e] =
                       NextDir(OnEnumFailure(
                          [v EXCEPT !.enumFailed = @ \cup {i}]))]
    /\ UNCHANGED <<envVars, fs, hostVars, run, schedVars>>

\* lines 192-211: one entry of the inner loop: Info, the test, Remove
EvalEntry(e) ==
    /\ Alive
    /\ exec[e].pc = "files"
    /\ LET x == exec[e]
           f == x.files[x.fileIdx]
           v == [x EXCEPT !.evals = @ \cup {<<x.dirIdx, f>>},
                          !.evalN = @ + 1]
       IN \E statOk \in InfoOutcomes(f, fs, faults) :
            IF ~statOk
            THEN /\ exec' = [exec EXCEPT ![e] = NextEntry(OnStatFailure(
                                [v EXCEPT !.statFailed = @ \cup {f}]))]
                 /\ fs' = fs
            ELSE IF IsCandidate(IsDirNode(f), mtime[f],
                                ThresholdInUse(x, now, config.Days))
            THEN LET c == [v EXCEPT !.staleSeen = @ \cup {f},
                                    !.staleN = @ + 1]
                 IN IF RemoveOk(f, fs, faults)
                      THEN /\ fs' = fs \ {f}
                           /\ exec' = [exec EXCEPT ![e] =
                                 NextEntry(OnDeleteSuccess(
                                   [c EXCEPT !.removed = @ \cup {f}]))]
                      ELSE /\ fs' = fs
                           /\ exec' = [exec EXCEPT ![e] =
                                 NextEntry(OnDeleteFailure(
                                   [c EXCEPT !.delFailed = @ \cup {f}]))]
            ELSE /\ exec' = [exec EXCEPT ![e] = NextEntry(v)]
                 /\ fs' = fs
    /\ UNCHANGED <<envVars, hostVars, run, schedVars>>

\* lines 214-215: the two counts are logged and the call returns; a call
\* made by the scheduler then gives its token back (SkipIfStillRunning's
\* deferred ch <- v)
Finish(e) ==
    /\ Alive
    /\ exec[e].pc = "dirs"
    /\ exec[e].dirIdx > Len(config.Directories)
    /\ exec' = [exec EXCEPT ![e] =
                  [@ EXCEPT !.pc = "done",
                            !.report = <<exec[e].successCount,
                                         exec[e].failureCount>>]]
    /\ IF e[1] = "cron"
       THEN /\ token'  = [token  EXCEPT ![e[2]] = @ + 1]
            /\ active' = [active EXCEPT ![e[2]] = @ - 1]
       ELSE UNCHANGED <<token, active>>
    /\ UNCHANGED <<envVars, fs, hostVars, run, schedRunning, ticks, pending,
                   started>>

\* =====================================================================
\* the service: Start, run, Stop (src/main.go 29-60) and the scheduler
\* =====================================================================

\* faulty variant: the job is not wrapped, every tick runs it
SkipNever(r) == TRUE

\* cron.SkipIfStillRunning: the wrapped job runs only if it can take the
\* single item out of its channel
SkipIfStillRunning(r) == token[r] > 0

\* c.AddFunc(p.config.Time, ...) parses the expression
AddFuncOk(cfg) == cfg.TimeValid

\* faulty variant: Start launches the run loop only
StartWithoutEager ==
    /\ ~crashed
    /\ host.start > 0
    /\ starts' = starts + 1
    /\ host' = [host EXCEPT !.start = @ - 1]
    /\ run'  = [run EXCEPT ![starts + 1] = "new"]
    /\ UNCHANGED <<envVars, fs, stops, exitClosed, crashed, schedVars, exec>>

\* Start: "Service started", go p.cleanDirectories(), go p.run()
Start ==
    /\ Alive
    /\ host.start > 0
    /\ LET r == starts + 1
       IN /\ starts' = r
          /\ host' = [host EXCEPT !.start = @ - 1]
          /\ exec' = [exec EXCEPT ![<<"eager", r>>] = SpawnedExec]
          /\ run'  = [run EXCEPT ![r] = "new"]
    /\ UNCHANGED <<envVars, fs, stops, exitClosed, crashed, schedVars>>

\* run, lines 37-49: cron.New, AddFunc (return on error), c.Start()
RunStart(r) ==
    /\ Alive
    /\ run[r] = "new"
    /\ IF AddFuncOk(config)
       THEN /\ run' = [run EXCEPT ![r] = "waiting"]
            /\ schedRunning' = [schedRunning EXCEPT ![r] = TRUE]
       ELSE /\ run' = [run EXCEPT ![r] = "failed"]
            /\ UNCHANGED schedRunning
    /\ UNCHANGED <<envVars, fs, hostVars, token, ticks, pending, started,
                   active, exec>>

\* faulty variant: the run loop returns without c.Stop()
RunExitWithoutStop(r) ==
    /\ ~crashed
    /\ run[r] = "waiting"
    /\ exitClosed
    /\ run' = [run EXCEPT ![r] = "stopped"]
    /\ UNCHANGED <<envVars, fs, hostVars, schedVars, exec>>

\* run, lines 51-54: <-p.exit returns once the channel is closed, then
\* c.Stop() and "Service stopped"; c.Stop() does not wait for running jobs
RunExit(r) ==
    /\ Alive
    /\ run[r] = "waiting"
    /\ exitClosed
    /\ run' = [run EXCEPT ![r] = "stopped"]
    /\ schedRunning' = [schedRunning EXCEPT ![r] = FALSE]
    /\ UNCHANGED <<envVars, fs, hostVars, token, ticks, pending, started,
                   active, exec>>

\* faulty variant: Stop ends the process once it has closed the channel
StopExitsProcess ==
    /\ ~crashed
    /\ host.stop > 0
    /\ host' = [host EXCEPT
                  !.stop = @ - 1,
                  !.caught = IF "caught" \in host.notes /\ ~exitClosed
                             THEN {e \in ExecIds :
                                     exec[e].pc \in {"spawned", "dirs", "files"}}
                             ELSE @]
    /\ stops' = stops + 1
    /\ exitClosed' = TRUE
    /\ crashed' = TRUE
    /\ UNCHANGED <<envVars, fs, starts, run, schedVars, exec>>

\* Stop: close(p.exit); closing a closed channel panics, and nothing
\* recovers the panic.  A host that notes it writes down the calls of
\* cleanDirectories its Stop found in progress (history, read by the
\* properties only).
Stop ==
    /\ Alive
    /\ host.stop > 0
    /\ host' = [host EXCEPT
                  !.stop = @ - 1,
                  !.caught = IF "caught" \in host.notes /\ ~exitClosed
                             THEN {e \in ExecIds :
                                     exec[e].pc \in {"spawned", "dirs", "files"}}
                             ELSE @]
    /\ stops' = stops + 1
    /\ IF exitClosed
       THEN /\ crashed' = TRUE
            /\ UNCHANGED exitClosed
       ELSE /\ exitClosed' = TRUE
            /\ UNCHANGED crashed
    /\ UNCHANGED <<envVars, fs, starts, run, schedVars, exec>>

\* the scheduler of run loop r fires the job: cron's loop spawns a goroutine
\* for it (startJob: go job.Run()) and goes back to its timer
Tick(r) ==
    /\ Alive
    /\ schedRunning[r]
    /\ ticks[r] < host.ticks
    /\ ticks' = [ticks EXCEPT ![r] = @ + 1]
    /\ pending' = [pending EXCEPT ![r] =
                     IF "busy" \in host.notes /\ token[r] = 0
                     THEN [@ EXCEPT !.busy = @ + 1]
                     ELSE [@ EXCEPT !.free = @ + 1]]
    /\ UNCHANGED <<envVars, fs, hostVars, run, schedRunning, token, started,
                   active, exec>>

\* a job goroutine of scheduler r reaches the SkipIfStillRunning wrapper:
\* it either takes the token and calls p.cleanDirectories, or finds the
\* token gone and returns (the tick is skipped).  c.Stop() does not reach
\* a goroutine that is already spawned.
RunJob(r) ==
    /\ Alive
    /\ \E k \in {"free", "busy"} :
         /\ pending[r][k] > 0
         /\ pending' = [pending EXCEPT ![r][k] = @ - 1]
    /\ IF SkipIfStillRunning(r)
       THEN /\ token'   = [token   EXCEPT ![r] = @ - 1]
            /\ started' = [started EXCEPT ![r] = @ + 1]
            /\ active'  = [active  EXCEPT ![r] = @ + 1]
            /\ exec'    = [exec EXCEPT ![<<"cron", r>>] = SpawnedExec]
       ELSE UNCHANGED <<token, started, active, exec>>
    /\ UNCHANGED <<envVars, fs, hostVars, run, schedRunning, ticks>>

\* the wall clock advances by one second
ClockTick ==
    /\ Alive
    /\ now < T0 + MaxClock
    /\ now' = now + 1
    /\ UNCHANGED <<config, zone, mtime, faults, fs, hostVars, run, schedVars,
                   exec>>

\* =====================================================================
\* initial states
\* =====================================================================

\* the directory lists a configuration file may give
DirectoryLists == {<<"a">>, <<"b", "a">>, <<"a/sub", "a">>}

\* `days` is any integer of the file (default 3); no check is made on it
DaysValues == {-1, 0, 1}

Configs == [Directories : DirectoryLists, Days : DaysValues,
            TimeValid : BOOLEAN]

\* modification times around the thresholds the runs compute: Old, and in
\* MTimeMaps one day before T0 to the second, and T0 itself
Old == T0 - DaySeconds - 1
\* every directory and the nested file are old; a/f and b/g as given
MTimes(af, bg) ==
    [n \in Nodes |-> IF n = "a/f" THEN af ELSE IF n = "b/g" THEN bg ELSE Old]

MTimeMaps ==
    {MTimes(t[1], t[2]) :
        t \in {<<Old, T0>>, <<T0 - DaySeconds, Old>>, <<T0, T0 - DaySeconds>>}}

NoFaults == [read |-> {}, stat |-> {}, remove |-> {}]
FaultsA  == [read |-> {"b"},     stat |-> {"a/sub"},        remove |-> {"a/f"}]
FaultsB  == [read |-> {"a/sub"}, stat |-> {"a/f", "b/emp"}, remove |-> {"b/g"}]

\* the permission problems of the tree
FaultMaps == {NoFaults, FaultsA, FaultsB}

\* time zones: no offset at all; clocks put forward an hour half a day
\* before T0 (a calendar day of 23 hours); clocks put back an hour at the
\* same instant (a calendar day of 25 hours)
UTC    == [at |-> 0, before |-> 0, after |-> 0]
Spring == [at |-> T0 - 12 * HourSeconds, before |-> HourSeconds,
           after |-> 2 * HourSeconds]
Fall   == [at |-> T0 - 12 * HourSeconds, before |-> 2 * HourSeconds,
           after |-> HourSeconds]

\* the machines the service is run on: a tree, its permission problems
\* and the zone
EnvPlain == [mtime |-> MTimes(T0, T0 - DaySeconds), faults |-> NoFaults,
             zone |-> UTC]
Environments ==
    {EnvPlain,
     [mtime |-> MTimes(T0 - DaySeconds, Old), faults |-> NoFaults,
      zone |-> Spring],
     [mtime |-> MTimes(Old, T0), faults |-> FaultsA, zone |-> Fall],
     [mtime |-> MTimes(T0 - DaySeconds, Old), faults |-> FaultsB,
      zone |-> UTC]}

\* the state main() leaves behind: exit open, nothing started
InitProgram ==
    /\ now = T0
    /\ fs = Nodes
    /\ starts = 0 /\ stops = 0
    /\ exitClosed = FALSE /\ crashed = FALSE
    /\ run = [r \in RunIds |-> "none"]
    /\ schedRunning = [r \in RunIds |-> FALSE]
    /\ token = [r \in RunIds |-> 1]
    /\ ticks = [r \in RunIds |-> 0]
    /\ pending = [r \in RunIds |-> [free |-> 0, busy |-> 0]]
    /\ started = [r \in RunIds |-> 0]
    /\ active = [r \in RunIds |-> 0]
    /\ exec = [e \in ExecIds |-> IdleExec]

Next ==
    \/ Start
    \/ Stop
    \/ \E r \in RunIds : RunStart(r)
    \/ \E r \in RunIds : RunExit(r)
    \/ \E r \in RunIds : Tick(r)
    \/ \E e \in ExecIds : Begin(e)
    \/ \E r \in RunIds : RunJob(r)
    \/ \E e \in ExecIds : ReadDirStep(e)
    \/ \E e \in ExecIds : EvalEntry(e)
    \/ \E e \in ExecIds : Finish(e)
    \/ ClockTick

\* The service under any caller: Start and Stop arrive in any order and any
\* number up to the bounds, over a small tree.
Init ==
    /\ InitProgram
    /\ host = [start |-> MaxStarts, stop |-> MaxStops, ticks |-> 1,
               notes |-> {}, caught |-> {}]
    /\ config \in [Directories : {<<"a/sub">>}, Days : {1}, TimeValid : BOOLEAN]
    /\ mtime \in {[n \in Nodes |-> Old]}
    /\ faults = NoFaults
    /\ zone = UTC

Spec == Init /\ [][Next]_vars

\* The service under the service manager (s.Run, line 171): one Start, then
\* one Stop, over every configuration on every machine; the negative
\* number of days is tried on the plain machine only.
InitClean ==
    /\ InitProgram
    /\ host = [start |-> 1, stop |-> 1, ticks |-> MaxTicks,
               notes |-> {}, caught |-> {}]
    /\ config \in Configs
    /\ \E env \in Environments :
          /\ config.Days < 0 => env = EnvPlain
          /\ mtime = env.mtime
          /\ faults = env.faults
          /\ zone = env.zone

CleanSpec == InitClean /\ [][Next]_vars

\* The service under the service manager with the Go scheduler's fairness:
\* every goroutine that can take a step eventually takes it.  Start, Stop,
\* the cron ticks and the clock belong to the environment and are not forced.
InitFair ==
    /\ InitProgram
    /\ host = [start |-> 1, stop |-> 1, ticks |-> MaxTicks,
               notes |-> {"caught"}, caught |-> {}]
    /\ config \in [Directories : {<<"b", "a">>}, Days : {1}, TimeValid : BOOLEAN]
    /\ mtime \in {m \in MTimeMaps : m["b/g"] = Old}
    /\ faults \in {[read |-> {}, stat |-> {"a/sub"}, remove |-> {"a/f"}]}
    /\ zone = UTC

\* One machine, one configuration, and a host that notes for every job
\* goroutine whether its tick fired while a job was running.
InitWatch ==
    /\ InitProgram
    /\ host = [start |-> 1, stop |-> 1, ticks |-> MaxTicks,
               notes |-> {"busy"}, caught |-> {}]
    /\ config \in [Directories : {<<"a">>}, Days : {0}, TimeValid : {TRUE}]
    /\ mtime = EnvPlain.mtime
    /\ faults = EnvPlain.faults
    /\ zone = EnvPlain.zone

WatchSpec == InitWatch /\ [][Next]_vars

Fairness ==
    /\ \A r \in RunIds : /\ WF_vars(RunStart(r))
                         /\ WF_vars(RunExit(r))
                         /\ WF_vars(RunJob(r))
    /\ \A e \in ExecIds : /\ WF_vars(Begin(e))
                          /\ WF_vars(ReadDirStep(e))
                          /\ WF_vars(EvalEntry(e))
                          /\ WF_vars(Finish(e))

FairSpec == InitFair /\ [][Next]_vars /\ Fairness

\* =====================================================================
\* properties
\* =====================================================================

\* the body of cleanDirectories is being executed
Executing(e) == exec[e].pc \in {"dirs", "files"}

\* the call has been made and has not returned
InProgress(e) == exec[e].pc \in {"spawned", "dirs", "files"}

Returned(e) == exec[e].pc = "done"

\* one step of execution e
ExecStep(e) == Begin(e) \/ ReadDirStep(e) \/ EvalEntry(e) \/ Finish(e)

ConfiguredDirs == SeqToSet(config.Directories)

\* C1: at most one execution of cleanDirectories is in progress, the eager
\* one of Start and the scheduler's included.
C1_MutualExclusion ==
    Cardinality({e \in ExecIds : Executing(e)}) <= 1

\* C2: a tick that fires while the scheduler's previous execution is still
\* running is skipped and not queued.  No scheduler ever has more than one
\* execution in progress; the scheduler's count of started executions
\* does not change while one is in progress, and the firing itself changes
\* neither that execution nor the token; and no execution is ever started
\* for a tick that fired while an execution was running.
C2_TickSkippedWhileRunning ==
    /\ [](\A r \in RunIds : active[r] <= 1)
    /\ [][\A r \in RunIds :
            active[r] > 0 =>
               /\ started'[r] = started[r]
               /\ (ticks'[r] # ticks[r] =>
                      /\ exec'[<<"cron", r>>] = exec[<<"cron", r>>]
                      /\ active'[r] = active[r]
                      /\ token'[r] = token[r])]_vars
    /\ [][\A r \in RunIds :
            started'[r] # started[r] =>
               pending'[r].busy = pending[r].busy]_vars

\* C3: no Stop call faults, whatever the number of Stop calls and the state
\* they arrive in.
C3_StopNeverFaults == ~crashed

\* the entries the claim calls stale for execution e: the non-directory
\* immediate children of a configured directory older than e's threshold
StaleEntries(e) ==
    {f \in FileNodes : /\ ParentOf(f) \in ConfiguredDirs
                       /\ mtime[f] < exec[e].threshold}

\* C4 as stated: when an execution has returned, every stale entry is gone,
\* unless the execution counted and logged the failure of its deletion, and
\* then the entry is still there.
C4_StaleGoneOrDeleteFailed ==
    \A e \in ExecIds :
        Returned(e) =>
            \A f \in StaleEntries(e) :
                IF f \in exec[e].delFailed THEN f \in fs ELSE f \notin fs

\* C4 as amended: when an execution has returned, every stale entry it
\* reached (listed by ReadDir, Info succeeded) is gone unless the execution
\* counted and logged the failure of its deletion; each failed deletion is
\* one failure counted and one line logged, and the failing step leaves the
\* tree as it was.
C4_ReachedStaleGoneOrDeleteFailed ==
    /\ [](\A e \in ExecIds :
            /\ exec[e].logLines = Cardinality(exec[e].delFailed)
            /\ exec[e].failureCount >= Cardinality(exec[e].delFailed)
            /\ exec[e].staleSeen \subseteq StaleEntries(e)
            /\ Returned(e) =>
                 \A f \in exec[e].staleSeen :
                     f \notin fs \/ f \in exec[e].delFailed)
    /\ [][\A e \in ExecIds :
            exec'[e].delFailed # exec[e].delFailed => fs' = fs]_vars

\* an execution has returned after deleting one stale entry and failing to
\* delete another, which is still there
C4_Witness ==
    \E e \in ExecIds :
        /\ Returned(e)
        /\ \E f \in exec[e].staleSeen : f \notin fs /\ f \in exec[e].removed
        /\ \E f \in exec[e].delFailed : f \in fs

\* C5: an execution never removes an entry whose modification time is at or
\* after its threshold: every entry that leaves the tree is removed by an
\* execution whose threshold is later than the entry's modification time.
C5_KeepsEntriesAtOrAfterThreshold ==
    [][\A f \in fs \ fs' :
         \E e \in ExecIds : /\ exec[e].pc = "files"
                            /\ exec'[e] # exec[e]
                            /\ exec[e].files[exec[e].fileIdx] = f
                            /\ mtime[f] < exec[e].threshold]_vars

\* an execution has returned after evaluating a file modified exactly at
\* its threshold, and another one older than it: the first is still there
C5_Witness ==
    \E e \in ExecIds :
        /\ Returned(e)
        /\ exec[e].removed # {}
        /\ \E d \in exec[e].evals :
              /\ d[2] \in FileNodes
              /\ d[2] \notin exec[e].statFailed
              /\ mtime[d[2]] = exec[e].threshold
              /\ d[2] \in fs

\* the evaluations of execution e whose entry is a stale candidate: not a
\* directory, and older than e's threshold
CandidatesEvaluated(e) ==
    {d \in exec[e].evals : /\ ~IsDirNode(d[2])
                           /\ mtime[d[2]] < exec[e].threshold}

\* C6: the final successCount + failureCount of an execution is the number
\* of stale candidates it evaluated: a subdirectory or a file that is not
\* stale adds to neither count.
C6_CountsSumToStaleCandidates ==
    \A e \in ExecIds :
        Returned(e) =>
            exec[e].successCount + exec[e].failureCount
                = Cardinality(CandidatesEvaluated(e))

\* C7: only non-directory immediate children of a configured directory are
\* ever removed: no directory (configured or not) and no entry whose parent
\* is not a configured directory leaves the tree.
C7_OnlyFilesOfConfiguredDirs ==
    [][\A f \in fs \ fs' :
          /\ ~IsDirNode(f)
          /\ ParentOf(f) \in ConfiguredDirs]_vars

\* an execution has returned after removing a file of a, having evaluated
\* the old subdirectory a/sub: a/sub and the old file below it are there
C7_Witness ==
    \E e \in ExecIds :
        /\ Returned(e)
        /\ "a/f" \in exec[e].removed
        /\ "a/sub" \notin ConfiguredDirs
        /\ \E d \in exec[e].evals : d[2] = "a/sub" /\ d[2] \notin exec[e].statFailed
        /\ mtime["a/sub"] < exec[e].threshold
        /\ mtime["a/sub/n"] < exec[e].threshold
        /\ {"a", "a/sub", "a/sub/n"} \subseteq fs

\* how far an execution has come
Rank(x) ==
    CASE x.pc = "idle"    -> 0
      [] x.pc = "spawned" -> 1
      [] x.pc = "done"    -> 2 + 4 * (Len(config.Directories) + 2)
      [] OTHER            -> 2 + 4 * x.dirIdx + x.fileIdx

\* C8: no enumeration, stat or delete failure aborts an execution: while it
\* has not returned and the process is alive it can take its next step,
\* each step takes it further, none faults the process, and when it returns
\* it has visited every configured directory, evaluated each entry of each
\* directory it could enumerate exactly once, and logged its counts.
C8_FailuresNeverAbort ==
    /\ [](\A e \in ExecIds :
            /\ (InProgress(e) /\ Alive) => ENABLED ExecStep(e)
            /\ Returned(e) =>
                 /\ exec[e].visited = 1..Len(config.Directories)
                 /\ exec[e].evals = exec[e].toEval
                 /\ exec[e].evalN = Cardinality(exec[e].toEval)
                 /\ exec[e].report = <<exec[e].successCount,
                                       exec[e].failureCount>>)
    /\ [][\A e \in ExecIds :
            (InProgress(e) /\ exec'[e] # exec[e]) =>
               /\ Rank(exec'[e]) > Rank(exec[e])
               /\ crashed' = crashed]_vars

\* an execution has returned after a directory that could not be
\* enumerated, an entry whose stat failed and an entry whose delete failed
C8_Witness ==
    \E e \in ExecIds :
        /\ Returned(e)
        /\ exec[e].enumFailed # {}
        /\ exec[e].statFailed # {}
        /\ exec[e].delFailed # {}
        /\ exec[e].enumFailed # exec[e].visited

\* C9: every failure to enumerate a configured directory adds one to the
\* execution's failureCount and writes a log line.
C9_EnumFailureCountedAndLogged ==
    [][\A e \in ExecIds :
          exec'[e].enumFailed # exec[e].enumFailed =>
             /\ exec'[e].failureCount = exec[e].failureCount + 1
             /\ exec'[e].logLines + exec'[e].outLines
                   > exec[e].logLines + exec[e].outLines]_vars

RunReturned(r) == run[r] \in {"stopped", "failed"}

\* job goroutines of scheduler r that have not made their test yet
Pending(r) == pending[r].free + pending[r].busy

\* C10: once Stop has been called, every run loop eventually returns with
\* its scheduler stopped; an execution in flight never keeps it from doing
\* so; and a scheduler whose run loop has returned starts no execution.
C10_StopHaltsScheduler ==
    /\ \A r \in RunIds :
          (exitClosed /\ run[r] \in {"new", "waiting"})
             ~> (RunReturned(r) /\ ~schedRunning[r])
    /\ [](\A r \in RunIds :
            (exitClosed /\ run[r] = "waiting" /\ Alive) => ENABLED RunExit(r))
    /\ [][\A r \in RunIds :
            RunReturned(r) => /\ started'[r] = started[r]
                              /\ ticks'[r] = ticks[r]
                              /\ ~schedRunning'[r]]_vars

\* C10 as it holds: once Stop has been called, every run loop eventually
\* returns with its scheduler stopped; an execution in flight never keeps
\* it from doing so; a scheduler whose run loop has returned fires no tick
\* and spawns no job goroutine; and the only executions it still starts
\* are those of job goroutines spawned before, each of which eventually
\* makes its test.
C10_StopHaltsTicks ==
    /\ \A r \in RunIds :
          (exitClosed /\ run[r] \in {"new", "waiting"})
             ~> (RunReturned(r) /\ ~schedRunning[r] /\ Pending(r) = 0)
    /\ [](\A r \in RunIds :
            (exitClosed /\ run[r] = "waiting" /\ Alive) => ENABLED RunExit(r))
    /\ [][\A r \in RunIds :
            RunReturned(r) =>
               /\ ticks'[r] = ticks[r]
               /\ ~schedRunning'[r]
               /\ Pending(r)' <= Pending(r)
               /\ started'[r] - started[r] <= Pending(r) - Pending(r)']_vars

\* the run loop has returned and stopped its scheduler while an execution
\* the scheduler started is still in flight
C10_Witness ==
    \E r \in RunIds :
        /\ exitClosed
        /\ run[r] = "stopped"
        /\ ~schedRunning[r]
        /\ Executing(<<"cron", r>>)

\* C11: when a run loop has stopped its scheduler and reported "Service
\* stopped", no execution that scheduler accepted is still in progress.
C11_StoppedWaitsForAcceptedTick ==
    \A r \in RunIds :
        run[r] = "stopped" => /\ ~InProgress(<<"cron", r>>)
                              /\ active[r] = 0

\* C13: a cron expression that fails to parse is fatal at startup: once
\* AddFunc has failed the failure has been logged and the process has
\* terminated, so nothing of the service runs on without a schedule.
C13_ParseFailureIsFatal ==
    \A r \in RunIds :
        run[r] = "failed" =>
           /\ ~Alive
           /\ \A e \in ExecIds : ~Executing(e)

\* C17: the configured number of days is never negative, so the threshold
\* of an execution is not later than the instant it started and no file
\* modified at or after that instant is deleted by it.
C17_ThresholdNotAfterStart ==
    \A e \in ExecIds :
        exec[e].pc \in {"dirs", "files", "done"} =>
           /\ exec[e].threshold <= exec[e].startedAt
           /\ \A f \in exec[e].removed : mtime[f] < exec[e].startedAt

\* C16: the threshold of an execution is computed once, when it starts,
\* from the clock and the configured days; no later step of the execution
\* changes it, and every entry the execution tests is tested against that
\* value, wherever the clock has moved to since.
C16_ThresholdFixedForThePass ==
    [][\A e \in ExecIds :
          /\ (exec[e].pc = "spawned" /\ exec'[e].pc = "dirs") =>
                exec'[e].threshold = Threshold(now, config.Days, zone)
          /\ Executing(e) =>
                /\ exec'[e].threshold = exec[e].threshold
                /\ exec'[e].startedAt = exec[e].startedAt
                /\ \A p \in exec'[e].evals \ exec[e].evals :
                      p[2] \notin exec'[e].statFailed =>
                         (p[2] \in exec'[e].staleSeen
                            <=> IsCandidate(IsDirNode(p[2]), mtime[p[2]],
                                   Threshold(exec[e].startedAt,
                                             config.Days, zone)))]_vars

\* the clock has advanced while the pass is running, and a file that is
\* stale by the clock's new value but not by the threshold of the pass was
\* tested and kept
C16_Witness ==
    \E e \in ExecIds : \E f \in FileNodes :
        /\ exec[e].pc \in {"dirs", "files", "done"}
        /\ now > exec[e].startedAt
        /\ f \in {p[2] : p \in exec[e].evals}
        /\ f \notin exec[e].statFailed /\ f \notin exec[e].staleSeen
        /\ exec[e].threshold <= mtime[f]
        /\ mtime[f] < Threshold(now, config.Days, zone)

\* C19: an execution walks the configured directories one at a time in the
\* order of the configuration: the i-th directory it enumerates is the
\* i-th configured one, the directories it has enumerated are a prefix of
\* the list, and once it has enumerated a directory every entry of the
\* directories before it has been evaluated.
C19_DirectoriesInConfiguredOrder ==
    \A e \in ExecIds :
        /\ \A i \in exec[e].visited : \A j \in 1..i : j \in exec[e].visited
        /\ \A p \in exec[e].toEval :
              ParentOf(p[2]) = config.Directories[p[1]]
        /\ \A i \in exec[e].visited : \A q \in exec[e].toEval :
              q[1] < i => q \in exec[e].evals
        /\ Executing(e) =>
              /\ \A i \in exec[e].visited : i <= exec[e].dirIdx
              /\ \A q \in exec[e].evals : q[1] <= exec[e].dirIdx

\* an execution has evaluated entries of the first and of the second
\* configured directory and returned
C19_Witness ==
    \E e \in ExecIds :
        /\ Returned(e)
        /\ Len(config.Directories) = 2
        /\ \E p, q \in exec[e].evals : p[1] = 1 /\ q[1] = 2

\* C15: a Start call spawns exactly one execution of cleanDirectories, its
\* own eager one, and nothing else ever spawns that one; again and again
\* a state is reached in which the eager execution of every Start made
\* has run to its end, whether or not the scheduler ever fires, and every
\* run loop with a cron expression that parses is past c.Start(); the
\* step that takes it there starts the scheduler, which stays active
\* until Stop has been called.
C15_StartRunsEagerlyAndSchedules ==
    /\ [][starts' # starts =>
            /\ {e \in ExecIds : exec'[e] # exec[e]} = {<<"eager", starts'>>}
            /\ exec'[<<"eager", starts'>>] = SpawnedExec]_vars
    /\ [][\A r \in RunIds :
            (exec'[<<"eager", r>>].pc = "spawned"
               /\ exec[<<"eager", r>>].pc # "spawned") => starts' = r]_vars
    /\ []<>(\A r \in RunIds :
               /\ starts >= r => Returned(<<"eager", r>>)
               /\ AddFuncOk(config) => run[r] # "new")
    /\ [][\A r \in RunIds :
            (run[r] = "new" /\ run'[r] # "new" /\ AddFuncOk(config))
               => (run'[r] = "waiting" /\ schedRunning'[r])]_vars
    /\ [](\A r \in RunIds : run[r] = "waiting" => schedRunning[r])
    /\ [][\A r \in RunIds :
            (schedRunning[r] /\ ~schedRunning'[r]) => exitClosed]_vars

\* the eager execution has returned while the scheduler, started and not
\* stopped, has never fired
C15_Witness ==
    \E r \in RunIds :
        /\ Returned(<<"eager", r>>)
        /\ exec[<<"eager", r>>].evalN > 0
        /\ run[r] = "waiting" /\ schedRunning[r]
        /\ ticks[r] = 0
        /\ ~exitClosed

\* C12: Stop cancels nothing.  The steps of Stop and of the run loop's
\* return leave every execution as it is; an execution in progress leaves
\* that state only by returning; one that has returned has enumerated
\* every configured directory, evaluated every entry it listed and logged
\* its two counts; and once Stop has been called a state is always
\* reached in which no execution is in progress any more, so that every
\* execution in flight has returned.
C12_InFlightExecutionCompletes ==
    /\ [][(stops' # stops
             \/ \E r \in RunIds : run[r] = "waiting" /\ run'[r] = "stopped")
            => exec' = exec]_vars
    /\ [][\A e \in ExecIds :
            InProgress(e) => (InProgress(e)' \/ Returned(e)')]_vars
    /\ [](\A e \in ExecIds :
            Returned(e) =>
               /\ exec[e].visited = 1..Len(config.Directories)
               /\ exec[e].evals = exec[e].toEval
               /\ exec[e].report
                     = <<exec[e].successCount, exec[e].failureCount>>)
    /\ exitClosed ~> (\A e \in ExecIds : ~InProgress(e))

\* an execution that Stop found in progress has since returned, after the
\* run loop reported "Service stopped", with entries evaluated
C12_Witness ==
    \E e \in host.caught :
        /\ Returned(e)
        /\ started[e[2]] <= 1
        /\ run[e[2]] = "stopped"
        /\ exec[e].evalN > 0
        /\ exec[e].report # <<>>

\* the entries execution e tested and kept as not stale
KeptNonStale(e) ==
    {p[2] : p \in exec[e].evals} \ (exec[e].statFailed \cup exec[e].staleSeen)

\* e has computed its threshold
HasBegun(e) == exec[e].pc \in {"dirs", "files", "done"}

\* C14: running the executor again with the same threshold (no time has
\* passed) and no other change to the tree does nothing more.  No entry is
\* removed by two executions; an execution removes nothing that another
\* with the same threshold kept as not stale; and once an execution has
\* returned, a directory listing of another never shows an entry the first
\* removed, and an execution with the same threshold removes nothing and
\* counts no success.
C14_SecondRunDeletesNothing ==
    /\ [](\A e1, e2 \in ExecIds :
            (e1 # e2 /\ HasBegun(e1) /\ HasBegun(e2)) =>
               /\ exec[e1].removed \cap exec[e2].removed = {}
               /\ exec[e1].threshold = exec[e2].threshold =>
                     exec[e2].removed \cap KeptNonStale(e1) = {})
    /\ [][\A e1, e2 \in ExecIds :
            (e1 # e2 /\ Returned(e1) /\ Executing(e2)) =>
               /\ \A p \in exec'[e2].toEval \ exec[e2].toEval :
                     p[2] \notin exec[e1].removed
               /\ exec[e1].threshold = exec[e2].threshold =>
                     /\ exec'[e2].successCount = exec[e2].successCount
                     /\ exec'[e2].removed = exec[e2].removed
                     /\ fs' = fs]_vars

\* a first execution removed entries and returned; a second one with the
\* same threshold listed the directories those entries were in, found none
\* of them, and returned with successCount = 0
C14_Witness ==
    \E e1, e2 \in ExecIds :
        /\ e1 # e2 /\ Returned(e1) /\ Returned(e2)
        /\ exec[e1].threshold = exec[e2].threshold
        /\ exec[e1].removed # {}
        /\ \A f \in exec[e1].removed :
              /\ \E i \in exec[e2].visited \ exec[e2].enumFailed :
                    config.Directories[i] = ParentOf(f)
              /\ f \notin {p[2] : p \in exec[e2].toEval}
        /\ exec[e2].evalN > 0
        /\ exec[e2].report = <<0, exec[e2].failureCount>>

\* C18: the lifecycle can be cycled in one process.  A Start that follows
\* a completed Stop (Stop has been called and every run loop started
\* before has returned) leaves the service with its exit signal unset, so
\* that the new run loop keeps its scheduler running until the next Stop
\* and that Stop finds a channel it can close.
C18_StartAfterStopRunsAgain ==
    [][(/\ starts' # starts
        /\ starts >= 1 /\ stops >= 1
        /\ \A r \in 1..starts : run[r] = "stopped")
          => ~exitClosed']_vars

====
